---- MODULE Spec2Model ----
(***************************************************************************)
(* Model of src/app.py: prepare_availability and solve_model, the CP-SAT   *)
(* formulation of the resident allocation problem.  A state holds the      *)
(* arguments of solve_model (df, residentes, slots, availability) and what *)
(* the last call left behind (objective, solver status, returned table).   *)
(* Slots are the row indices of df, numbered from 1; residents are         *)
(* numbered from 1 in the order of the list residentes.                    *)
(***************************************************************************)
EXTENDS Integers, Sequences, FiniteSets, TLC

MaxSlots == 4
MaxResidents == 2
MaxKeys == 8

HoursValues == {1, 2}
StaffTypes == {"Elective", "Staff"}
Objectives == {"fairness", "min_hours", "elective_focus"}

VARIABLES df, residentes, slots, availability, objective, status, results, outcome

vars == <<df, residentes, slots, availability, objective, status, results, outcome>>

(***************************************************************************)
(* Arithmetic helpers (Python's sum, min, max).                            *)
(***************************************************************************)
RECURSIVE SumSeq(_)
SumSeq(s) == IF s = <<>> THEN 0 ELSE Head(s) + SumSeq(Tail(s))

MinOf(S) == CHOOSE m \in S : \A n \in S : m <= n
MaxOf(S) == CHOOSE m \in S : \A n \in S : m >= n

Range(s) == {s[k] : k \in 1..Len(s)}

(***************************************************************************)
(* prepare_availability: the dict availability, in insertion order: for    *)
(* each resident in turn, every slot, all marked available.  The list of   *)
(* residents (the distinct Names of df) and the list of slots (the index   *)
(* of df) are taken as given.                                              *)
(***************************************************************************)
prepare_availability(res, sl) ==
    [k \in 1..(Len(res) * Len(sl)) |->
        [r |-> res[((k - 1) \div Len(sl)) + 1],
         i |-> sl[((k - 1) % Len(sl)) + 1],
         avail |-> TRUE]]

(***************************************************************************)
(* 2.1  x: one Boolean variable per entry of availability that is true,    *)
(* in the order of availability.items().                                   *)
(***************************************************************************)
\* HasVar with a fault: a variable for every key, available or not.
HasVarForEveryKey(e) == TRUE

HasVar(e) == e.avail

x == SelectSeq(availability, HasVar)

InX(r, i) == \E k \in 1..Len(availability) :
    availability[k].r = r /\ availability[k].i = i /\ HasVar(availability[k])

(***************************************************************************)
(* 2.2  Each slot is covered exactly once: sum(vars_slot) == 1.  With no   *)
(* variable for the slot the sum is the integer 0 and the constraint is    *)
(* the constant False, which makes the model infeasible.                   *)
(***************************************************************************)
vars_slot(i) == {r \in Range(residentes) : InX(r, i)}

\* CoverageConstraint with a fault: each slot covered at most once.
CoverageAtMostOnce(n) == n <= 1

CoverageConstraint(n) == n = 1

\* The valuations of one slot's variables that satisfy its constraint, each
\* given as the set of residents whose variable is 1.
SlotColumns(i) == {c \in SUBSET vars_slot(i) : CoverageConstraint(Cardinality(c))}

\* The valuations of x that satisfy every coverage constraint, as sequences
\* indexed by slot.
RECURSIVE Columns(_)
Columns(k) ==
    IF k = 0 THEN {<<>>}
    ELSE {Append(s, c) : s \in Columns(k - 1), c \in SlotColumns(slots[k])}

FeasibleSolutions == Columns(Len(slots))

\* solver.Value(x[(r, i)]).
Value(sol, r, i) == IF r \in sol[i] THEN 1 ELSE 0

(***************************************************************************)
(* 2.3  hours and elective_bonus per (r, i) of x.                          *)
(***************************************************************************)
\* hours with a fault: the hours of a pair scaled by the resident's position.
hoursByResident(r, i) == df[i].Hours * r

hours(r, i) == df[i].Hours

elective_bonus(r, i) == IF df[i].StaffType = "Elective" THEN 1 ELSE 0

\* sum(hours.values()): the upper bound of the integer variables.
HoursBound ==
    LET xs == x IN SumSeq([k \in 1..Len(xs) |-> hours(xs[k].r, xs[k].i)])

(***************************************************************************)
(* 2.4  total_hours[r] and the three objectives.                           *)
(***************************************************************************)
total_hours(sol, r) ==
    SumSeq([k \in 1..Len(slots) |->
        IF InX(r, slots[k]) THEN Value(sol, r, slots[k]) * hours(r, slots[k]) ELSE 0])

\* z_max and z_min range over 0..sum(hours.values()) with
\* total_hours[r] <= z_max and total_hours[r] >= z_min for every resident.
ZMaxValues(load) ==
    {z \in 0..HoursBound : \A r \in DOMAIN load : load[r] <= z}

\* ZMinValues with a fault: z_min bounded only by residents that hold a slot.
ZMinOverAssigned(load) ==
    {z \in 0..HoursBound : \A r \in DOMAIN load : load[r] > 0 => load[r] >= z}

ZMinValues(load) ==
    {z \in 0..HoursBound : \A r \in DOMAIN load : load[r] >= z}

\* The least z_max - z_min the auxiliary variables allow for a valuation.
FairnessValue(sol) ==
    LET load == [k \in 1..Len(residentes) |-> total_hours(sol, residentes[k])]
    IN MinOf(ZMaxValues(load)) - MaxOf(ZMinValues(load))

MinHoursValue(sol) ==
    SumSeq([k \in 1..Len(residentes) |-> total_hours(sol, residentes[k])])

ElectiveValue(sol) ==
    LET xs == x
    IN 0 - SumSeq([k \in 1..Len(xs) |->
               Value(sol, xs[k].r, xs[k].i) * elective_bonus(xs[k].r, xs[k].i)])

ObjectiveValue(obj, sol) ==
    CASE obj = "fairness" -> FairnessValue(sol)
      [] obj = "min_hours" -> MinHoursValue(sol)
      [] obj = "elective_focus" -> ElectiveValue(sol)

OptimalSolutions(obj) ==
    LET feasible == FeasibleSolutions
        best == MinOf({ObjectiveValue(obj, s) : s \in feasible})
    IN {s \in feasible : ObjectiveValue(obj, s) = best}

(***************************************************************************)
(* 2.5  solver.Solve(model) with a 20 s limit and 8 search workers: the    *)
(* set of (status, valuation) pairs the call can end with.  The solver     *)
(* proves optimality or infeasibility when it finishes in time; when the   *)
(* limit expires it reports FEASIBLE with its incumbent, or UNKNOWN        *)
(* without one.  Which of several admissible valuations it returns is not  *)
(* determined (parallel search workers, no fixed seed).                    *)
(***************************************************************************)
\* Stands for "no valuation": read only when the status is OPTIMAL or FEASIBLE.
NoSolution == <<>>

Solve(obj) ==
    LET feasible == FeasibleSolutions
    IN {[status |-> "OPTIMAL", sol |-> s] : s \in OptimalSolutions(obj)}
       \cup {[status |-> "FEASIBLE", sol |-> s] : s \in feasible}
       \cup (IF feasible = {} THEN {[status |-> "INFEASIBLE", sol |-> NoSolution]} ELSE {})
       \cup {[status |-> "UNKNOWN", sol |-> NoSolution]}

(***************************************************************************)
(* 2.6  The returned DataFrame: one row per variable of x whose value is   *)
(* 1, in the order of x.items(); no row unless OPTIMAL or FEASIBLE.        *)
(***************************************************************************)
Row(r, i) ==
    [Date |-> df[i].Date, Assignment |-> df[i].Assignment, Resident |-> r,
     Hours |-> df[i].Hours, StaffType |-> df[i].StaffType]

RECURSIVE RowsFrom(_, _)
RowsFrom(sol, xs) ==
    IF xs = <<>> THEN <<>>
    ELSE IF Value(sol, Head(xs).r, Head(xs).i) = 1
         THEN <<Row(Head(xs).r, Head(xs).i)>> \o RowsFrom(sol, Tail(xs))
         ELSE RowsFrom(sol, Tail(xs))

Extract(st, sol) ==
    IF st \in {"OPTIMAL", "FEASIBLE"} THEN RowsFrom(sol, x) ELSE <<>>

(***************************************************************************)
(* solve_model(df, residentes, slots, availability, objective).  An        *)
(* objective other than the three known ones raises ValueError.            *)
(***************************************************************************)
solve_model(obj) ==
    /\ objective' = obj
    /\ IF obj \notin Objectives
       THEN /\ outcome' = "ValueError"
            /\ status' = "none"
            /\ results' = <<>>
       ELSE \E o \in Solve(obj) :
               /\ outcome' = "returned"
               /\ status' = o.status
               /\ results' = Extract(o.status, o.sol)
    /\ UNCHANGED <<df, residentes, slots, availability>>

(***************************************************************************)
(* The arguments of a call.  df has up to MaxSlots rows, one per week in   *)
(* ascending date order; residentes has up to MaxResidents names;          *)
(* availability has the keys of prepare_availability, at most MaxKeys of   *)
(* them.  Two families of arguments are explored: any availability and any *)
(* Hours over rows of one Staff Type; and any rows with every pair         *)
(* available (what main passes).                                           *)
(***************************************************************************)
Tables(n, hs, ts) ==
    {[i \in 1..n |-> [Date |-> i, Assignment |-> i, Hours |-> h[i], StaffType |-> t[i]]] :
        h \in [1..n -> hs], t \in [1..n -> ts]}

Availabilities(res, sl) ==
    LET full == prepare_availability(res, sl)
    IN {[k \in 1..Len(full) |-> [full[k] EXCEPT !.avail = m[k]]] :
            m \in [1..Len(full) -> BOOLEAN]}

InitEligibility(maxSlots) ==
    \E n \in 0..maxSlots, m \in 0..MaxResidents :
        /\ n * m <= MaxKeys
        /\ df \in Tables(n, HoursValues, {"Staff"})
        /\ slots = [i \in 1..n |-> i]
        /\ residentes = [r \in 1..m |-> r]
        /\ availability \in Availabilities(residentes, slots)

InitCosts(maxSlots) ==
    \E n \in 0..maxSlots, m \in 0..MaxResidents :
        /\ n * m <= MaxKeys
        /\ df \in Tables(n, HoursValues, StaffTypes)
        /\ slots = [i \in 1..n |-> i]
        /\ residentes = [r \in 1..m |-> r]
        /\ availability = prepare_availability(residentes, slots)

NoCallYet ==
    /\ objective = "none"
    /\ status = "none"
    /\ results = <<>>
    /\ outcome = "none"

Init ==
    /\ InitEligibility(MaxSlots) \/ InitCosts(MaxSlots)
    /\ NoCallYet

\* A call's result depends on its arguments alone, so one call per behaviour
\* reaches every result a call can have.
FirstCall ==
    /\ outcome = "none"
    /\ \E obj \in Objectives \cup {"other"} : solve_model(obj)

Next == FirstCall

Spec == Init /\ [][Next]_vars

\* Calls repeated on the same arguments (main solves again on every click),
\* over tables one row shorter.
InitRepeated ==
    /\ InitEligibility(MaxSlots - 1) \/ InitCosts(MaxSlots - 1)
    /\ NoCallYet

AnyCall == \E obj \in Objectives \cup {"other"} : solve_model(obj)

NextRepeated == AnyCall

SpecRepeated == InitRepeated /\ [][NextRepeated]_vars

(***************************************************************************)
(* Reference definitions for the properties, computed from the arguments   *)
(* and from the returned table, not from the CP-SAT model above.           *)
(***************************************************************************)
Available(r, i) ==
    \E e \in Range(availability) : e.r = r /\ e.i = i /\ e.avail

Returned == outcome = "returned"

Solved == Returned /\ status \in {"OPTIMAL", "FEASIBLE"}

RowsOf(i) == {k \in 1..Len(results) : results[k].Assignment = df[i].Assignment}

RowsOfResident(r) == {k \in 1..Len(results) : results[k].Resident = r}

\* Every way to give each slot one available resident.
Coverings ==
    {a \in [Range(slots) -> Range(residentes)] : \A i \in Range(slots) : Available(a[i], i)}

RECURSIVE SumOver(_, _)
SumOver(S, f) ==
    IF S = {} THEN 0
    ELSE LET e == CHOOSE e \in S : TRUE IN f[e] + SumOver(S \ {e}, f)

SpreadOf(load) ==
    IF DOMAIN load = {} THEN 0
    ELSE MaxOf({load[r] : r \in DOMAIN load}) - MinOf({load[r] : r \in DOMAIN load})

\* Per-resident total Hours of the returned table, over all of residentes.
TableLoad ==
    [r \in Range(residentes) |->
        SumOver(RowsOfResident(r), [k \in 1..Len(results) |-> results[k].Hours])]

CoveringLoad(a) ==
    [r \in Range(residentes) |->
        SumOver({i \in Range(slots) : a[i] = r}, [i \in Range(slots) |-> df[i].Hours])]

\* C1: when the solver status is OPTIMAL or FEASIBLE, the returned table has
\* exactly one row per slot and the resident of each row is available for
\* that row's slot.
C1_OneAvailableResidentPerSlot ==
    Solved =>
        /\ Len(results) = Len(slots)
        /\ \A i \in Range(slots) : Cardinality(RowsOf(i)) = 1
        /\ \A k \in 1..Len(results) :
              \E i \in Range(slots) :
                 /\ results[k].Assignment = df[i].Assignment
                 /\ Available(results[k].Resident, i)

C1_Witness ==
    /\ Solved
    /\ Len(results) = 4
    /\ \E e \in Range(availability) : ~e.avail
    /\ \E j, k \in 1..Len(results) : results[j].Resident # results[k].Resident

SolvedInTime == Returned /\ status \in {"OPTIMAL", "INFEASIBLE"}

\* C3: the table returned when the solver status is INFEASIBLE differs from
\* the table returned when the time limit expires without a solution
\* (status UNKNOWN), for calls on the same arguments.
C3_InfeasibleDistinctFromTimeout ==
    [][(Returned /\ status = "INFEASIBLE" /\ Returned' /\ status' = "UNKNOWN")
          => results' # results]_vars

\* C4: with at least two residents and df in ascending date order, the rows
\* of the returned table are in ascending date order.
C4_RowsOrderedByDate ==
    (Returned /\ Len(residentes) >= 2) =>
        \A j, k \in 1..Len(results) : j < k => results[j].Date <= results[k].Date

NoAvailableResident ==
    Len(slots) >= 1 /\ \A e \in Range(availability) : ~e.avail

C6_SameTableOnRepeat ==
    [][(Returned /\ status = "OPTIMAL" /\ Returned' /\ status' = "OPTIMAL"
           /\ objective' = objective) => results' = results]_vars

\* The cap of the capacity scenario: max_assignments = 2 for every resident.
max_assignments(r) == 2

\* C7: in every assignment returned, no resident has more rows than its
\* max_assignments.
C7_CapRespected ==
    Solved => \A r \in Range(residentes) : Cardinality(RowsOfResident(r)) <= max_assignments(r)

\* C8: in every assignment returned, no resident holds two slots of
\* consecutive weeks.
C8_NoConsecutiveWeeks ==
    Solved =>
        \A j, k \in 1..Len(results) :
            results[j].Resident = results[k].Resident
                => results[j].Date - results[k].Date # 1

SlotWithoutEligible ==
    \E i \in Range(slots) : \A r \in Range(residentes) : ~Available(r, i)

\* C9: a call whose arguments leave some slot with no available resident
\* fails with MalformedInstanceError and returns no table.
C9_EmptyEligibilityRejected ==
    (outcome # "none" /\ objective \in Objectives /\ SlotWithoutEligible)
        => outcome = "MalformedInstanceError"

\* The valuation of x that a covering stands for.
ValuationOf(a) == [i \in 1..Len(slots) |-> {a[slots[i]]}]

SlotValue(obj) ==
    IF obj = "min_hours"
    THEN SumSeq([i \in 1..Len(slots) |-> df[slots[i]].Hours])
    ELSE 0 - Cardinality({i \in Range(slots) : df[i].StaffType = "Elective"})

\* C10: with objective min_hours or elective_focus, every covering of the
\* slots by available residents has the same objective value (the sum of
\* Hours over the slots, resp. minus the number of Elective slots), and the
\* optimal valuations of the model are exactly the coverings.
C10_ObjectiveIgnoresResident ==
    (Returned /\ objective \in {"min_hours", "elective_focus"}) =>
        /\ \A a \in Coverings :
              ObjectiveValue(objective, ValuationOf(a)) = SlotValue(objective)
        /\ OptimalSolutions(objective) = {ValuationOf(a) : a \in Coverings}

C10_Witness ==
    /\ Returned /\ status = "OPTIMAL" /\ objective = "elective_focus"
    /\ Cardinality(Coverings) >= 4
    /\ \E i, j \in Range(slots) :
          /\ df[i].StaffType = "Elective" /\ df[j].StaffType # "Elective"
          /\ df[i].Hours # df[j].Hours
    /\ \E j, k \in 1..Len(results) : results[j].Resident # results[k].Resident

====
